---- MODULE Spec2Model ----
(***************************************************************************)
(* Storage lifecycle engine of scripts/storage_manager.py                  *)
(* (IntelligentStorageManager): the archive pass over raw data, the model  *)
(* version pass, the pruning of old archives, the emergency reclaim and    *)
(* the orchestration of one run by run_full_cleanup.                       *)
(*                                                                         *)
(* The remote store (Google Drive) is the environment: each remote call is *)
(* one step, and a call that can raise has a second outcome in which it    *)
(* raises.  Times are day numbers; a calendar month is 30 days and a year  *)
(* 12 months.  Sizes and quota readings are counted in units of 1/GB of a  *)
(* gigabyte.                                                               *)
(*                                                                         *)
(* Spec follows one run of run_full_cleanup on a fixed store; SpecArchive, *)
(* SpecModels and SpecEmergency follow one pass each, with the same        *)
(* actions, over every store within the bounds; SpecFolders follows the    *)
(* get_folder_id calls of a run and SpecReport generate_storage_report on  *)
(* stores around its thresholds.                                           *)
(***************************************************************************)
EXTENDS Integers, Sequences, FiniteSets, TLC

\* ------------------------------------------------------------------ bounds
MaxRaw == 3          \* raw files the store may hold
MaxModels == 3       \* .h5 model artifacts the store may hold
MaxProc == 3         \* processed files the store may hold
MaxPasses == 2       \* successive runs of the model pass that are followed
MaxLookups == 3      \* get_folder_id calls of a run that are followed

\* ------------------------------------------------- retention configuration
raw_data_days == 30
compressed_data_months == 12
max_storage_gb == 12
GB == 2              \* size units per gigabyte (1024**3 bytes)

\* -------------------------------------------------------------- universes
\* The folder names of folder_structure, in dict order.
folder_structure ==
    <<"forex_data_raw", "forex_data_processed", "forex_models",
      "forex_compressed", "forex_backups", "forex_logs">>

\* The folder of a name as the store holds it after setup: its handle is the
\* place of the name in folder_structure.
FolderOf(k) == [id |-> k, name |-> folder_structure[k]]

\* The store with every folder of folder_structure in it, once.
AllFolders == {FolderOf(k) : k \in 1..Len(folder_structure)}

RawIds == 1..MaxRaw
ModelIds == 1..MaxModels
ProcIds == 1..MaxProc

\* createdTime of raw file f, a day number: files 1 and 2 fall in one month,
\* file 3 in the next, and so on every 12 days.
RawCreated(f) == 720 + 12 * f

\* The name of raw file f, in parts: every third file of the raw folder is a
\* compressed archive by its name.
RawName(f) ==
    IF f % 3 = 0
    THEN <<"forex_data_", f, "_compressed.csv.gz">>
    ELSE <<"forex_data_", f, ".csv">>

\* 'compressed' in file['name']
IsCompressedName(name) == name[Len(name)] = "_compressed.csv.gz"

\* The rows of raw file f, in file order.  Every file holds row 0, which a
\* run that was interrupted uploaded again; even files hold their own row
\* twice.
RawRows(f) == IF f % 2 = 1 THEN <<0, f>> ELSE <<f, 0, f>>

\* The clock readings of a run: with 800 every raw file up to 4 is older than
\* the retention window, with 786 file 3 sits exactly on the cutoff.
NowChoices == {786, 800}

\* The performance values a metrics file may record for a model, in tenths
\* (0.9 is 9).
Scores == {-1, 0, 7, 9}

\* The constructor's retention configuration.
DefaultConfig == [old_models_keep |-> 3, backup_best_models |-> 5]

\* The values of old_models_keep and backup_best_models (retention_config is a
\* plain attribute a caller may set, and nothing validates it): the
\* constructor's, a smaller pair with which three models reach all three
\* tiers, and a pair with more models to keep than best models.
ConfigChoices ==
    {DefaultConfig,
     [old_models_keep |-> 1, backup_best_models |-> 2],
     [old_models_keep |-> 2, backup_best_models |-> 1]}

\* A file of forex_models is a model artifact when its name ends in '.h5':
\* file 0 is some other file, files 1.. are artifacts.
IsH5(m) == m # 0

\* ------------------------------------------------------------- sequences
Range(s) == {s[n] : n \in 1..Len(s)}

RECURSIVE Concat(_)
\* pd.concat(dfs, ignore_index=True): the rows of the frames, in order.
Concat(dfs) == IF dfs = <<>> THEN <<>> ELSE Head(dfs) \o Concat(Tail(dfs))

RECURSIVE DropDuplicatesFrom(_, _)
DropDuplicatesFrom(rows, seen) ==
    IF rows = <<>> THEN <<>>
    ELSE IF Head(rows) \in seen
         THEN DropDuplicatesFrom(Tail(rows), seen)
         ELSE <<Head(rows)>> \o DropDuplicatesFrom(Tail(rows), seen \cup {Head(rows)})

\* The frame as it is: the result of drop_duplicates() thrown away.
KeepDuplicates(rows) == rows

\* DataFrame.drop_duplicates(): the first occurrence of each row is kept.
DropDuplicates(rows) == DropDuplicatesFrom(rows, {})

RECURSIVE AscendingSeq(_)
\* The ids of a set in ascending order.
AscendingSeq(S) ==
    IF S = {} THEN <<>>
    ELSE LET m == CHOOSE x \in S : \A y \in S : x <= y
         IN  <<m>> \o AscendingSeq(S \ {m})

\* The value of a usage that was not read, and of a report that was not made.
NotRead == -1
NoReport == <<>>

\* ------------------------------------------------------------- variables
VARIABLES
    pc,                \* where the run is
    now,               \* datetime.now() of the run, a day number
    zoned,             \* the remote's createdTime strings end in 'Z'
    raw_data,          \* files of folder forex_data_raw
    processed_data,    \* files of folder forex_data_processed
    models,            \* files of folder forex_models
    compressed,        \* files of folder forex_compressed
    backups,           \* files of folder forex_backups
    logs,              \* reports of folder forex_logs, in upload order
    metrics,           \* content of the model_metrics file of forex_logs
    monthly_groups,    \* compress_and_archive_data: month -> files, in dict order
    grp,               \* index of the month being archived
    pos,               \* index of the file being downloaded or deleted
    monthly_data,      \* frames downloaded for the month
    retention_config,  \* old_models_keep and backup_best_models
    model_performance, \* manage_model_versions: the metrics as loaded
    sorted_models,     \* manage_model_versions: the ranked artifacts
    i,                 \* manage_model_versions: the loop index
    passes,            \* runs of the model pass so far
    move_calls,        \* models move_file_to_backup was called with in this pass
    move_failed,       \* models whose move raised in this pass
    root,              \* misplaced files in the root folder: <<"data", f>> or <<"model", m>>
    files,             \* the listing the clean or emergency loop goes through
    used_gb_after,     \* run_full_cleanup: the usage read after the regular passes
    target_reduction,  \* emergency_cleanup: the space to free
    freed_space,       \* emergency_cleanup: the space freed so far
    report,            \* the report generate_storage_report returned
    raw_before,        \* the raw files the archive pass listed
    download_failed,   \* raw files whose download or parse raised in this run
    delete_calls,      \* handles delete_file was called with in this run
    upload_failed,     \* months whose archive upload raised in this run
    folders,           \* the folders of the remote store, each a handle and a name
    resolved,          \* the get_folder_id calls of this run: name and handle returned
    other,             \* the locals of the archive pass of a second process
    overlap,           \* the two processes had their archive passes under way together
    first              \* the end of the run before this one: its store and its record of calls

storeVars == <<raw_data, processed_data, models, compressed, backups, logs, metrics,
               root>>
runVars == <<files, used_gb_after, target_reduction, freed_space, report>>
archiveVars == <<monthly_groups, grp, pos, monthly_data>>
historyVars == <<raw_before, download_failed, delete_calls, upload_failed>>
clockVars == <<now, zoned, retention_config>>
folderVars == <<folders, resolved>>
concurrentVars == <<other, overlap>>
rerunVars == <<first>>
modelVars == <<model_performance, sorted_models, i, passes, move_calls, move_failed>>
vars == <<pc, now, zoned, retention_config, raw_data, processed_data, models,
          compressed, backups, logs, metrics, monthly_groups, grp, pos,
          monthly_data, model_performance, sorted_models, i, passes, move_calls,
          move_failed, root, files, used_gb_after, target_reduction,
          freed_space, report, raw_before, download_failed, delete_calls,
          upload_failed, folders, resolved, other, overlap, first>>

\* There was no run before this one.
NoRun == [pc |-> "none"]

\* ------------------------------------------------- compress_and_archive_data
\* The locals of a process that has not called compress_and_archive_data yet.
NotStarted ==
    [pc |-> "compress_list", monthly_groups |-> <<>>, grp |-> 0, pos |-> 1,
     monthly_data |-> <<>>]

\* list_files_in_folder(raw_folder_id): orderBy createdTime, ascending.
ListRaw == AscendingSeq(raw_data)

\* month_key = f"{file_date.year}-{file_date.month:02d}"
MonthKey(day) == <<day \div 360, (day % 360) \div 30 + 1>>

\* The index of month key in the dict when it is the key added last, 0
\* otherwise: a grouping of consecutive files only.
KeyIndexLast(groups, key) ==
    IF groups # <<>> /\ groups[Len(groups)].month = key THEN Len(groups) ELSE 0

\* The index of month key in the dict, 0 when it is not a key.
KeyIndex(groups, key) ==
    IF \E n \in 1..Len(groups) : groups[n].month = key
    THEN CHOOSE n \in 1..Len(groups) : groups[n].month = key
    ELSE 0

\* file_date < cutoff_date, with <= for <.
IsOldInclusive(f, cutoff) == RawCreated(f) <= cutoff

\* file_date < cutoff_date
IsOld(f, cutoff) == RawCreated(f) < cutoff

RECURSIVE GroupByMonth(_, _, _)
\* The loop over files: a file older than the cutoff is appended to the list
\* of its month, a new month is added at the end of the dict.
GroupByMonth(listing, cutoff, groups) ==
    IF listing = <<>> THEN groups
    ELSE LET f == Head(listing)
             key == MonthKey(RawCreated(f))
             n == KeyIndex(groups, key)
         IN  IF ~IsOld(f, cutoff)
             THEN GroupByMonth(Tail(listing), cutoff, groups)
             ELSE IF n = 0
                  THEN GroupByMonth(Tail(listing), cutoff,
                                    Append(groups, [month |-> key, files |-> <<f>>]))
                  ELSE GroupByMonth(Tail(listing), cutoff,
                                    [groups EXCEPT ![n].files = Append(@, f)])

cutoff_date == now - raw_data_days

\* The files of the first month of the dict, whichever month the loop is at.
month_files_first == monthly_groups[1].files

\* for month, month_files in monthly_groups.items()
month_files == monthly_groups[grp].files

\* An exception nobody catches ends the run.
Raise == pc' = "raised"

\* The pass is over: run_full_cleanup goes on with manage_model_versions.
ArchiveReturn == pc' = "manage_list"

\* The next month of the dict, or the end of the pass.
NextGroup ==
    /\ monthly_data' = <<>>
    /\ pos' = 1
    /\ IF grp < Len(monthly_groups)
       THEN grp' = grp + 1 /\ pc' = "compress_download"
       ELSE grp' = 0 /\ ArchiveReturn

\* The files of the month were all tried: upload when a frame was read.
AfterDownloads(data) ==
    IF data # <<>>
    THEN /\ pc' = "compress_upload"
         /\ monthly_data' = data
         /\ pos' = 1
         /\ grp' = grp
    ELSE NextGroup

\* get_folder_id (twice), list_files_in_folder and the grouping loop.  With
\* zoned createdTime strings file_date is offset-aware and cutoff_date is
\* naive: the first comparison raises TypeError.
CompressList ==
    /\ pc = "compress_list"
    /\ raw_before' = raw_data
    /\ UNCHANGED <<clockVars, concurrentVars, rerunVars, folderVars, runVars, modelVars, storeVars, download_failed, delete_calls, upload_failed>>
    /\ IF zoned /\ raw_data # {}
       THEN Raise /\ UNCHANGED archiveVars
       ELSE LET groups == GroupByMonth(ListRaw, cutoff_date, <<>>)
            IN  /\ monthly_groups' = groups
                /\ monthly_data' = <<>>
                /\ pos' = 1
                /\ IF groups = <<>>
                   THEN grp' = 0 /\ ArchiveReturn
                   ELSE grp' = 1 /\ pc' = "compress_download"

\* files().list or files().create of the folder lookup raises.
CompressListRaises ==
    /\ pc = "compress_list"
    /\ Raise
    /\ UNCHANGED <<clockVars, concurrentVars, rerunVars, folderVars, runVars, modelVars, storeVars, archiveVars, historyVars>>

\* get_media, next_chunk and pd.read_csv succeed: the frame is appended.
DownloadOk ==
    /\ pc = "compress_download"
    /\ month_files[pos] \in raw_data
    /\ UNCHANGED <<clockVars, concurrentVars, rerunVars, folderVars, runVars, modelVars, storeVars, monthly_groups, historyVars>>
    /\ LET data == Append(monthly_data, RawRows(month_files[pos]))
       IN  IF pos < Len(month_files)
           THEN /\ pos' = pos + 1
                /\ monthly_data' = data
                /\ UNCHANGED <<pc, grp>>
           ELSE AfterDownloads(data)

\* The download or the parse raises: the except clause skips the file.
DownloadFails ==
    /\ pc = "compress_download"
    /\ download_failed' = download_failed \cup {month_files[pos]}
    /\ UNCHANGED <<clockVars, concurrentVars, rerunVars, folderVars, runVars, modelVars, storeVars, monthly_groups, raw_before, delete_calls,
                   upload_failed>>
    /\ IF pos < Len(month_files)
       THEN /\ pos' = pos + 1
            /\ UNCHANGED <<pc, grp, monthly_data>>
       ELSE AfterDownloads(monthly_data)

\* The handle the remote gives the next file of forex_compressed.
NewArchiveId ==
    LET ids == {a.id : a \in compressed}
    IN  IF ids = {} THEN 1 ELSE 1 + (CHOOSE x \in ids : \A y \in ids : x >= y)

\* compressed_filename = f"forex_data_{month}_compressed.csv.gz"
ArchiveFile(month, rows) ==
    [id |-> NewArchiveId,
     name |-> <<"forex_data_", month, "_compressed.csv.gz">>,
     rows |-> rows,
     createdTime |-> now]

\* upload_compressed_data succeeds: the archive is in forex_compressed and
\* the loop over month_files starts deleting.
UploadOk ==
    /\ pc = "compress_upload"
    /\ compressed' = compressed \cup
                       {ArchiveFile(monthly_groups[grp].month,
                                    DropDuplicates(Concat(monthly_data)))}
    /\ pc' = "compress_delete"
    /\ pos' = 1
    /\ UNCHANGED <<clockVars, concurrentVars, rerunVars, folderVars, runVars, modelVars, raw_data, processed_data, models, backups, logs,
                   metrics, root, monthly_groups, grp, monthly_data, historyVars>>

\* As UploadFails, with the error swallowed: the pass goes on to the deletes.
UploadFailsSwallowed ==
    /\ pc = "compress_upload"
    /\ upload_failed' = upload_failed \cup {monthly_groups[grp].month}
    /\ pc' = "compress_delete"
    /\ pos' = 1
    /\ UNCHANGED <<clockVars, concurrentVars, rerunVars, folderVars, runVars, modelVars, storeVars, monthly_groups, grp, monthly_data, raw_before,
                   download_failed, delete_calls>>

\* upload_compressed_data raises: nothing catches it.
UploadFails ==
    /\ pc = "compress_upload"
    /\ upload_failed' = upload_failed \cup {monthly_groups[grp].month}
    /\ Raise
    /\ UNCHANGED <<clockVars, concurrentVars, rerunVars, folderVars, runVars, modelVars, storeVars, archiveVars, raw_before, download_failed,
                   delete_calls>>

\* The step after delete_file(month_files[pos]).
AfterDelete ==
    IF pos < Len(month_files)
    THEN pos' = pos + 1 /\ UNCHANGED <<pc, grp, monthly_data>>
    ELSE NextGroup

\* delete_file returns True: the file is gone.
DeleteRawOk ==
    /\ pc = "compress_delete"
    /\ month_files[pos] \in raw_data
    /\ raw_data' = raw_data \ {month_files[pos]}
    /\ delete_calls' = delete_calls \cup {<<"raw_data", month_files[pos]>>}
    /\ AfterDelete
    /\ UNCHANGED <<clockVars, concurrentVars, rerunVars, folderVars, runVars, modelVars, processed_data, models, compressed, backups, logs,
                   metrics, root, monthly_groups, raw_before, download_failed,
                   upload_failed>>

\* delete_file catches the error and returns False: the file stays.
DeleteRawFails ==
    /\ pc = "compress_delete"
    /\ delete_calls' = delete_calls \cup {<<"raw_data", month_files[pos]>>}
    /\ AfterDelete
    /\ UNCHANGED <<clockVars, concurrentVars, rerunVars, folderVars, runVars, modelVars, storeVars, monthly_groups, raw_before, download_failed,
                   upload_failed>>

NextArchive ==
    \/ CompressList
    \/ CompressListRaises
    \/ DownloadOk
    \/ DownloadFails
    \/ UploadOk
    \/ UploadFails
    \/ DeleteRawOk
    \/ DeleteRawFails

\* The store before a run of the archive pass alone.
InitArchive ==
    /\ pc = "compress_list"
    /\ now \in NowChoices
    /\ zoned \in BOOLEAN
    /\ raw_data \in SUBSET RawIds
    /\ processed_data = {}
    /\ models = {}
    /\ compressed = {}
    /\ backups = {}
    /\ logs = <<>>
    /\ metrics = <<>>
    /\ monthly_groups = <<>>
    /\ grp = 0
    /\ pos = 1
    /\ monthly_data = <<>>
    /\ retention_config = DefaultConfig
    /\ model_performance = <<>>
    /\ sorted_models = <<>>
    /\ i = 0
    /\ passes = 0
    /\ move_calls = {}
    /\ move_failed = {}
    /\ root = {}
    /\ files = <<>>
    /\ used_gb_after = NotRead
    /\ target_reduction = 0
    /\ freed_space = 0
    /\ report = NoReport
    /\ raw_before = {}
    /\ download_failed = {}
    /\ delete_calls = {}
    /\ upload_failed = {}
    /\ folders = AllFolders
    /\ resolved = <<>>
    /\ other = NotStarted
    /\ overlap = FALSE
    /\ first = NoRun

SpecArchive == InitArchive /\ [][NextArchive]_vars

\* ------------------------------------- two processes in the archive pass
\* compress_and_archive_data takes no lock and keeps its listing in locals: a
\* second process started on the same store has its own pc, monthly_groups,
\* grp, pos and monthly_data, and shares the remote folders only.
Locals ==
    [pc |-> pc, monthly_groups |-> monthly_groups, grp |-> grp, pos |-> pos,
     monthly_data |-> monthly_data]

\* The archive pass of a process at p is over.
PassOver(p) == p \in {"manage_list", "raised"}

\* The archive pass of a process at p has listed and is not over.
PassUnderWay(p) == p \in {"compress_download", "compress_upload", "compress_delete"}

\* The scheduler gives the processor to the other process, which goes on
\* from where it stood; the passes overlap when the process left is in the
\* middle of its pass and the other one still has steps to take.
Switch ==
    /\ ~PassOver(other.pc)
    /\ other' = Locals
    /\ pc' = other.pc
    /\ monthly_groups' = other.monthly_groups
    /\ grp' = other.grp
    /\ pos' = other.pos
    /\ monthly_data' = other.monthly_data
    /\ overlap' = (overlap \/ PassUnderWay(pc))
    /\ UNCHANGED <<clockVars, rerunVars, folderVars, runVars, modelVars, storeVars, historyVars>>

NextConcurrent ==
    \/ NextArchive
    \/ Switch

\* The store before two processes run the archive pass: createdTime strings
\* without zone, so that both passes get past their grouping loop.
InitConcurrent ==
    /\ InitArchive
    /\ ~zoned

SpecConcurrent == InitConcurrent /\ [][NextConcurrent]_vars

\* ------------------------------------------------------ manage_model_versions
RECURSIVE DescendingSeq(_)
\* The ids of a set in descending order.
DescendingSeq(S) ==
    IF S = {} THEN <<>>
    ELSE LET m == CHOOSE x \in S : \A y \in S : x >= y
         IN  <<m>> \o DescendingSeq(S \ {m})

\* list_files_in_folder(models_folder_id, 'modifiedTime desc'): file m was
\* modified on day m, so the listing is by descending id.
ListModels == DescendingSeq(models)

\* model_performance.get(file['name'], 0)
PerformanceOf(perf, m) == IF m \in DOMAIN perf THEN perf[m] ELSE 0

RECURSIVE ModelRecords(_, _)
\* The loop that builds sorted_models: the '.h5' files of the listing, each
\* with its performance, in listing order.
ModelRecords(listing, perf) ==
    IF listing = <<>> THEN <<>>
    ELSE LET m == Head(listing)
             rest == ModelRecords(Tail(listing), perf)
         IN  IF IsH5(m)
             THEN <<[file |-> m, performance |-> PerformanceOf(perf, m)]>> \o rest
             ELSE rest

\* Where a record goes in a list sorted so far, with ties reversed: before
\* the first record that is not better than it.
InsertPlaceUnstable(sorted, rec) ==
    Cardinality({n \in 1..Len(sorted) : sorted[n].performance > rec.performance})

\* Where a record goes in a list sorted so far: after every record that is at
\* least as good (list.sort is stable, also with reverse=True).
InsertPlace(sorted, rec) ==
    Cardinality({n \in 1..Len(sorted) : sorted[n].performance >= rec.performance})

RECURSIVE SortByPerformance(_, _)
\* sorted_models.sort(key=lambda x: x['performance'], reverse=True)
SortByPerformance(records, sorted) ==
    IF records = <<>> THEN sorted
    ELSE LET rec == Head(records)
             n == InsertPlace(sorted, rec)
         IN  SortByPerformance(Tail(records),
                               SubSeq(sorted, 1, n) \o <<rec>> \o
                               SubSeq(sorted, n + 1, Len(sorted)))

\* The branch of the loop body taken at index n (counted from 0), with the
\* second bound inclusive.
TierInclusive(n) ==
    IF n < retention_config.old_models_keep THEN "keep"
    ELSE IF n <= retention_config.backup_best_models THEN "backup"
    ELSE "delete"

\* The branch of the loop body taken at index n (counted from 0).
Tier(n) ==
    IF n < retention_config.old_models_keep THEN "keep"
    ELSE IF n < retention_config.backup_best_models THEN "backup"
    ELSE "delete"

\* As MoveFails, with the model deleted when it cannot be moved.
MoveFailsThenDeletes ==
    /\ pc = "manage_loop"
    /\ (IF i < retention_config.old_models_keep THEN "keep"
        ELSE IF i < retention_config.backup_best_models THEN "backup"
        ELSE "delete") = "backup"
    /\ sorted_models[i + 1].file \in models
    /\ models' = models \ {sorted_models[i + 1].file}
    /\ move_calls' = move_calls \cup {sorted_models[i + 1].file}
    /\ move_failed' = move_failed \cup {sorted_models[i + 1].file}
    /\ delete_calls' = delete_calls \cup {<<"models", sorted_models[i + 1].file>>}
    /\ IF i + 1 < Len(sorted_models)
       THEN i' = i + 1 /\ UNCHANGED pc
       ELSE i' = 0 /\ pc' = "clean_list"
    /\ UNCHANGED <<now, zoned, retention_config, concurrentVars, rerunVars, folderVars, runVars, raw_data,
                   processed_data,
                   compressed, backups, logs, metrics, root, monthly_groups, grp,
                   pos, monthly_data,
                   model_performance, sorted_models, passes, raw_before,
                   download_failed, upload_failed>>

\* The pass is over: run_full_cleanup goes on with clean_old_compressed_data.
ManageReturn == pc' = "clean_list"

\* The loop goes to its next index or ends.
ManageAdvance ==
    IF i + 1 < Len(sorted_models)
    THEN i' = i + 1 /\ UNCHANGED pc
    ELSE i' = 0 /\ ManageReturn

\* The model the loop is at.
model_info == sorted_models[i + 1]

\* The lines up to the sort, with the metrics as load_model_performance_metrics
\* returned them.
ManageStart(perf) ==
    LET ranked == SortByPerformance(ModelRecords(ListModels, perf), <<>>)
    IN  /\ model_performance' = perf
        /\ sorted_models' = ranked
        /\ i' = 0
        /\ passes' = passes + 1
        /\ move_calls' = {}
        /\ move_failed' = {}
        /\ IF ranked = <<>> THEN ManageReturn ELSE pc' = "manage_loop"

\* get_folder_id (twice), list_files_in_folder, the metrics file read and the
\* sort.
ManageList ==
    /\ pc = "manage_list"
    /\ ManageStart(metrics)
    /\ UNCHANGED <<clockVars, concurrentVars, rerunVars, folderVars, runVars, storeVars, archiveVars, historyVars>>

\* The same with a metrics file that cannot be listed, read or parsed:
\* load_model_performance_metrics catches the error and returns {}.
ManageListNoMetrics ==
    /\ pc = "manage_list"
    /\ ManageStart(<<>>)
    /\ UNCHANGED <<clockVars, concurrentVars, rerunVars, folderVars, runVars, storeVars, archiveVars, historyVars>>

\* The folder lookup or the listing of forex_models raises.
ManageListRaises ==
    /\ pc = "manage_list"
    /\ Raise
    /\ UNCHANGED <<clockVars, concurrentVars, rerunVars, folderVars, runVars, storeVars, archiveVars, modelVars, historyVars>>

\* i < models_to_keep: the model stays where it is.
KeepModel ==
    /\ pc = "manage_loop"
    /\ Tier(i) = "keep"
    /\ ManageAdvance
    /\ UNCHANGED <<clockVars, concurrentVars, rerunVars, folderVars, runVars, storeVars, archiveVars, model_performance,
                   sorted_models, passes, move_calls, move_failed, historyVars>>

\* As MoveOk, with the file copied: it is in forex_backups and stays in
\* forex_models.
MoveOkCopies ==
    /\ pc = "manage_loop"
    /\ Tier(i) = "backup"
    /\ model_info.file \in models
    /\ backups' = backups \cup {model_info.file}
    /\ move_calls' = move_calls \cup {model_info.file}
    /\ ManageAdvance
    /\ UNCHANGED <<clockVars, concurrentVars, rerunVars, folderVars, runVars, raw_data, processed_data, models, compressed, logs,
                   metrics, root, archiveVars, model_performance, sorted_models, passes,
                   move_failed, historyVars>>

\* i < backups_to_keep and move_file_to_backup succeeds: the file changes
\* folder.
MoveOk ==
    /\ pc = "manage_loop"
    /\ Tier(i) = "backup"
    /\ model_info.file \in models
    /\ models' = models \ {model_info.file}
    /\ backups' = backups \cup {model_info.file}
    /\ move_calls' = move_calls \cup {model_info.file}
    /\ ManageAdvance
    /\ UNCHANGED <<clockVars, concurrentVars, rerunVars, folderVars, runVars, raw_data, processed_data, compressed, logs, metrics,
                   root, archiveVars, model_performance, sorted_models, passes,
                   move_failed, historyVars>>

\* files().get or files().update raises: move_file_to_backup catches it.
MoveFails ==
    /\ pc = "manage_loop"
    /\ Tier(i) = "backup"
    /\ move_calls' = move_calls \cup {model_info.file}
    /\ move_failed' = move_failed \cup {model_info.file}
    /\ ManageAdvance
    /\ UNCHANGED <<clockVars, concurrentVars, rerunVars, folderVars, runVars, storeVars, archiveVars, model_performance,
                   sorted_models, passes, historyVars>>

\* Neither: delete_file returns True.
DeleteModelOk ==
    /\ pc = "manage_loop"
    /\ Tier(i) = "delete"
    /\ model_info.file \in models
    /\ models' = models \ {model_info.file}
    /\ delete_calls' = delete_calls \cup {<<"models", model_info.file>>}
    /\ ManageAdvance
    /\ UNCHANGED <<clockVars, concurrentVars, rerunVars, folderVars, runVars, raw_data, processed_data, compressed, backups, logs,
                   metrics, root, archiveVars, model_performance, sorted_models,
                   passes, move_calls, move_failed, raw_before, download_failed,
                   upload_failed>>

\* Neither: delete_file returns False.
DeleteModelFails ==
    /\ pc = "manage_loop"
    /\ Tier(i) = "delete"
    /\ delete_calls' = delete_calls \cup {<<"models", model_info.file>>}
    /\ ManageAdvance
    /\ UNCHANGED <<clockVars, concurrentVars, rerunVars, folderVars, runVars, storeVars, archiveVars, model_performance,
                   sorted_models, passes, move_calls, move_failed, raw_before,
                   download_failed, upload_failed>>

\* The next scheduled run comes to its model pass: nothing but the engine has
\* changed the store in between, and the run's record of calls starts anew.
NextModelPass ==
    /\ pc \in {"clean_list", "raised"}
    /\ passes >= 1
    /\ passes < MaxPasses
    /\ pc' = "manage_list"
    /\ model_performance' = <<>>
    /\ sorted_models' = <<>>
    /\ i' = 0
    /\ move_calls' = {}
    /\ delete_calls' = {}
    /\ UNCHANGED <<clockVars, concurrentVars, rerunVars, folderVars, runVars, storeVars, archiveVars, passes, move_failed,
                   raw_before, download_failed, upload_failed>>

NextModels ==
    \/ ManageList
    \/ ManageListNoMetrics
    \/ ManageListRaises
    \/ KeepModel
    \/ MoveOk
    \/ MoveFails
    \/ DeleteModelOk
    \/ DeleteModelFails

\* The model pass of one run after the other.
NextModelPasses ==
    \/ NextModels
    \/ NextModelPass

\* The metrics files there can be for the artifacts of a models folder.
MetricsChoices(folder) ==
    UNION {[named -> Scores] : named \in SUBSET {m \in folder : IsH5(m)}}

\* The store before a run of the model pass alone.
InitModels ==
    /\ pc = "manage_list"
    /\ now = CHOOSE d \in NowChoices : TRUE
    /\ zoned = FALSE
    /\ retention_config \in ConfigChoices
    /\ raw_data = {}
    /\ processed_data = {}
    /\ models \in SUBSET (0..MaxModels)
    /\ compressed = {}
    /\ backups = {}
    /\ logs = <<>>
    /\ metrics \in MetricsChoices(models)
    /\ monthly_groups = <<>>
    /\ grp = 0
    /\ pos = 1
    /\ monthly_data = <<>>
    /\ model_performance = <<>>
    /\ sorted_models = <<>>
    /\ i = 0
    /\ passes = 0
    /\ move_calls = {}
    /\ move_failed = {}
    /\ root = {}
    /\ files = <<>>
    /\ used_gb_after = NotRead
    /\ target_reduction = 0
    /\ freed_space = 0
    /\ report = NoReport
    /\ raw_before = {}
    /\ download_failed = {}
    /\ delete_calls = {}
    /\ upload_failed = {}
    /\ folders = AllFolders
    /\ resolved = <<>>
    /\ other = NotStarted
    /\ overlap = FALSE
    /\ first = NoRun

SpecModels == InitModels /\ [][NextModelPasses]_vars

\* ------------------------------------------- the model pass, run after run
\* Between two runs the models folder receives a new artifact: the listing of
\* the next pass is whatever the folder holds by then.
ModelArrives ==
    /\ pc = "manage_list"
    /\ passes >= 1
    /\ \E m \in ModelIds \ (models \cup backups) : models' = models \cup {m}
    /\ UNCHANGED <<pc, clockVars, concurrentVars, rerunVars, folderVars, runVars, archiveVars, modelVars,
                   historyVars, raw_data, processed_data, compressed, backups, logs,
                   metrics, root>>

NextModelRuns ==
    \/ NextModelPasses
    \/ ModelArrives

\* The store before the first of the passes, with old_models_keep not above
\* backup_best_models.
InitModelRuns ==
    /\ InitModels
    /\ retention_config.old_models_keep <= retention_config.backup_best_models

SpecModelRuns == InitModelRuns /\ [][NextModelRuns]_vars

\* -------------------------------------------------- clean_old_compressed_data
\* As OldArchives, with the cutoff compressed_data_months days before now.
OldArchivesDays ==
    LET cutoff == now - compressed_data_months
        old == {a \in compressed : a.createdTime < cutoff}
        Before(a, b) == \/ a.createdTime < b.createdTime
                        \/ a.createdTime = b.createdTime /\ a.id < b.id
        place(a) == 1 + Cardinality({b \in old : Before(b, a)})
    IN  [n \in 1..Cardinality(old) |-> CHOOSE a \in old : place(a) = n]

\* The archives older than the cutoff, in listing order (createdTime, then
\* handle): the files the loop calls delete_file with.
OldArchives ==
    LET cutoff == now - compressed_data_months * 30
        old == {a \in compressed : a.createdTime < cutoff}
        Before(a, b) == \/ a.createdTime < b.createdTime
                        \/ a.createdTime = b.createdTime /\ a.id < b.id
        place(a) == 1 + Cardinality({b \in old : Before(b, a)})
    IN  [n \in 1..Cardinality(old) |-> CHOOSE a \in old : place(a) = n]

\* The pass is over: run_full_cleanup reads the usage again.
CleanReturn == pc' = "recheck"

\* The step after delete_file(files[pos]) in a loop that ends with `after`.
LoopAdvance(after) ==
    IF pos < Len(files)
    THEN pos' = pos + 1 /\ UNCHANGED <<pc, files>>
    ELSE pos' = 1 /\ files' = <<>> /\ pc' = after

\* get_folder_id, list_files_in_folder and the comparisons of the loop.  As in
\* the archive pass, zoned createdTime strings make the first comparison raise.
CleanList ==
    /\ pc = "clean_list"
    /\ IF zoned /\ compressed # {}
       THEN Raise /\ UNCHANGED <<files, pos>>
       ELSE /\ files' = OldArchives
            /\ pos' = 1
            /\ IF OldArchives = <<>> THEN CleanReturn ELSE pc' = "clean_loop"
    /\ UNCHANGED <<clockVars, concurrentVars, rerunVars, folderVars, storeVars, monthly_groups, grp, monthly_data, modelVars,
                   used_gb_after, target_reduction, freed_space, report, historyVars>>

\* The folder lookup or the listing of forex_compressed raises.
CleanListRaises ==
    /\ pc = "clean_list"
    /\ Raise
    /\ UNCHANGED <<clockVars, concurrentVars, rerunVars, folderVars, storeVars, archiveVars, modelVars, runVars, historyVars>>

\* delete_file returns True for an old archive.
CleanDeleteOk ==
    /\ pc = "clean_loop"
    /\ files[pos] \in compressed
    /\ compressed' = compressed \ {files[pos]}
    /\ delete_calls' = delete_calls \cup {<<"compressed", files[pos].id>>}
    /\ LoopAdvance("recheck")
    /\ UNCHANGED <<clockVars, concurrentVars, rerunVars, folderVars, raw_data, processed_data, models, backups, logs, metrics,
                   root, monthly_groups, grp, monthly_data, modelVars, used_gb_after,
                   target_reduction, freed_space, report, raw_before,
                   download_failed, upload_failed>>

\* delete_file returns False for an old archive.
CleanDeleteFails ==
    /\ pc = "clean_loop"
    /\ delete_calls' = delete_calls \cup {<<"compressed", files[pos].id>>}
    /\ LoopAdvance("recheck")
    /\ UNCHANGED <<clockVars, concurrentVars, rerunVars, folderVars, storeVars, monthly_groups, grp, monthly_data, modelVars,
                   used_gb_after, target_reduction, freed_space, report, raw_before,
                   download_failed, upload_failed>>

\* ------------------------------------------------------------ emergency_cleanup
\* createdTime of processed file p is day p: the listing by createdTime is by
\* ascending id.
ListProcessed == AscendingSeq(processed_data)

\* int(file.get('size', 0)), in size units: every fourth file has no size.
ProcSize(p) == IF p % 4 = 0 THEN 0 ELSE (p % 3) + 1

\* What get_storage_usage may read as used, in size units: max_storage_gb
\* itself, half a gigabyte more and two gigabytes more (12, 12.5 and 14 GB).
UsageBase == {max_storage_gb * GB, max_storage_gb * GB + 1, (max_storage_gb + 2) * GB}

\* The reading that goes with the store as the run before left it: what that
\* run read after its regular passes, less what its emergency_cleanup freed.
LeftByFirst ==
    IF first.pc = "none" \/ first.left = NotRead THEN {} ELSE {first.left}

UsageChoices == UsageBase \cup LeftByFirst

\* used_gb > self.retention_config['max_storage_gb'], with >= for >.
OverQuotaInclusive(used) == used >= max_storage_gb * GB

\* used_gb > self.retention_config['max_storage_gb']
OverQuota(used) == used > max_storage_gb * GB

\* (used_gb - max_storage_gb + 1) * 1024**3
TargetReduction(used) == used - max_storage_gb * GB + GB

\* freed_space >= target_reduction, with > for >=.
TargetReachedStrict == freed_space > target_reduction

\* freed_space >= target_reduction
TargetReached == freed_space >= target_reduction

\* The pass is over: run_full_cleanup goes on with generate_storage_report.
EmergencyReturn == pc' = "report"

\* get_storage_usage, and when over quota the folder lookup, the listing of
\* forex_data_processed and the target.
EmergencyStart ==
    /\ pc = "emergency_start"
    /\ \E used \in UsageChoices :
           IF OverQuota(used)
           THEN /\ files' = ListProcessed
                /\ target_reduction' = TargetReduction(used)
                /\ freed_space' = 0
                /\ pos' = 1
                /\ IF ListProcessed = <<>> THEN EmergencyReturn ELSE pc' = "emergency_loop"
           ELSE /\ EmergencyReturn
                /\ UNCHANGED <<files, target_reduction, freed_space, pos>>
    /\ UNCHANGED <<clockVars, concurrentVars, rerunVars, folderVars, storeVars, monthly_groups, grp, monthly_data, modelVars,
                   used_gb_after, report, historyVars>>

\* get_storage_usage, the folder lookup or the listing raises.
EmergencyStartRaises ==
    /\ pc = "emergency_start"
    /\ Raise
    /\ UNCHANGED <<clockVars, concurrentVars, rerunVars, folderVars, storeVars, archiveVars, modelVars, runVars, historyVars>>

\* if freed_space >= target_reduction: break
EmergencyBreak ==
    /\ pc = "emergency_loop"
    /\ TargetReached
    /\ EmergencyReturn
    /\ pos' = 1
    /\ files' = <<>>
    /\ UNCHANGED <<clockVars, concurrentVars, rerunVars, folderVars, storeVars, monthly_groups, grp, monthly_data, modelVars,
                   used_gb_after, target_reduction, freed_space, report, historyVars>>

\* As EmergencyDeleteOk, with the backups folder emptied along with the last
\* candidate.
EmergencyDeleteOkThenBackups ==
    /\ pc = "emergency_loop"
    /\ ~TargetReached
    /\ files[pos] \in processed_data
    /\ processed_data' = processed_data \ {files[pos]}
    /\ backups' = IF pos = Len(files) THEN {} ELSE backups
    /\ freed_space' = freed_space + ProcSize(files[pos])
    /\ delete_calls' = delete_calls \cup {<<"processed_data", files[pos]>>}
    /\ LoopAdvance("report")
    /\ UNCHANGED <<clockVars, concurrentVars, rerunVars, folderVars, raw_data, models, compressed, logs, metrics,
                   root, monthly_groups, grp, monthly_data, modelVars, used_gb_after,
                   target_reduction, report, raw_before, download_failed,
                   upload_failed>>

\* delete_file returns True: the size of the file is added to freed_space.
EmergencyDeleteOk ==
    /\ pc = "emergency_loop"
    /\ ~TargetReached
    /\ files[pos] \in processed_data
    /\ processed_data' = processed_data \ {files[pos]}
    /\ freed_space' = freed_space + ProcSize(files[pos])
    /\ delete_calls' = delete_calls \cup {<<"processed_data", files[pos]>>}
    /\ LoopAdvance("report")
    /\ UNCHANGED <<clockVars, concurrentVars, rerunVars, folderVars, raw_data, models, compressed, backups, logs, metrics,
                   root, monthly_groups, grp, monthly_data, modelVars, used_gb_after,
                   target_reduction, report, raw_before, download_failed,
                   upload_failed>>

\* delete_file returns False: freed_space is as it was.
EmergencyDeleteFails ==
    /\ pc = "emergency_loop"
    /\ ~TargetReached
    /\ delete_calls' = delete_calls \cup {<<"processed_data", files[pos]>>}
    /\ LoopAdvance("report")
    /\ UNCHANGED <<clockVars, concurrentVars, rerunVars, folderVars, storeVars, monthly_groups, grp, monthly_data, modelVars,
                   used_gb_after, target_reduction, freed_space, report, raw_before,
                   download_failed, upload_failed>>

NextEmergency ==
    \/ EmergencyStart
    \/ EmergencyStartRaises
    \/ EmergencyBreak
    \/ EmergencyDeleteOk
    \/ EmergencyDeleteFails

\* The store before a run of the emergency pass alone.
InitEmergency ==
    /\ pc = "emergency_start"
    /\ now = CHOOSE d \in NowChoices : TRUE
    /\ zoned = FALSE
    /\ retention_config = DefaultConfig
    /\ raw_data \in SUBSET {1}
    /\ processed_data \in SUBSET ProcIds
    /\ models \in SUBSET {1}
    /\ compressed = {}
    /\ backups = {}
    /\ logs = <<>>
    /\ metrics = <<>>
    /\ monthly_groups = <<>>
    /\ grp = 0
    /\ pos = 1
    /\ monthly_data = <<>>
    /\ model_performance = <<>>
    /\ sorted_models = <<>>
    /\ i = 0
    /\ passes = 0
    /\ move_calls = {}
    /\ move_failed = {}
    /\ root = {}
    /\ files = <<>>
    /\ used_gb_after = NotRead
    /\ target_reduction = 0
    /\ freed_space = 0
    /\ report = NoReport
    /\ raw_before = {}
    /\ download_failed = {}
    /\ delete_calls = {}
    /\ upload_failed = {}
    /\ folders = AllFolders
    /\ resolved = <<>>
    /\ other = NotStarted
    /\ overlap = FALSE
    /\ first = NoRun

SpecEmergency == InitEmergency /\ [][NextEmergency]_vars

\* ---------------------------------------------------------------- get_folder_id
\* results.get('files', []) for the query by name: the folders of that name.
FoldersNamed(name) == {f \in folders : f.name = name}

\* The handle the remote gives the next folder it creates.
NewFolderId ==
    LET ids == {f.id : f \in folders}
    IN  IF ids = {} THEN 1 ELSE 1 + (CHOOSE x \in ids : \A y \in ids : x >= y)

\* A call of get_folder_id ended with a handle returned.
Resolve(name, id) == resolved' = Append(resolved, [name |-> name, id |-> id])

\* As GetFolderIdCreates, without the test of items: a folder is created by
\* every call.
GetFolderIdAlwaysCreates(name) ==
    /\ pc = "get_folder_id"
    /\ Len(resolved) < MaxLookups
    /\ folders' = folders \cup {[id |-> NewFolderId, name |-> name]}
    /\ Resolve(name, NewFolderId)
    /\ UNCHANGED <<pc, clockVars, concurrentVars, rerunVars, storeVars, archiveVars, modelVars, runVars, historyVars>>

\* if items: return items[0]['id'].  The query has no orderBy: items[0] is any
\* folder of the name.
GetFolderIdFound(name) ==
    /\ pc = "get_folder_id"
    /\ Len(resolved) < MaxLookups
    /\ \E f \in FoldersNamed(name) : Resolve(name, f.id)
    /\ UNCHANGED <<pc, folders, clockVars, concurrentVars, rerunVars, storeVars, archiveVars, modelVars, runVars,
                   historyVars>>

\* else: files().create of a folder of that name, and its handle returned.
GetFolderIdCreates(name) ==
    /\ pc = "get_folder_id"
    /\ Len(resolved) < MaxLookups
    /\ FoldersNamed(name) = {}
    /\ folders' = folders \cup {[id |-> NewFolderId, name |-> name]}
    /\ Resolve(name, NewFolderId)
    /\ UNCHANGED <<pc, clockVars, concurrentVars, rerunVars, storeVars, archiveVars, modelVars, runVars, historyVars>>

\* files().list or files().create raises: nothing in get_folder_id catches it.
GetFolderIdRaises ==
    /\ pc = "get_folder_id"
    /\ Len(resolved) < MaxLookups
    /\ Raise
    /\ UNCHANGED <<folderVars, clockVars, concurrentVars, rerunVars, storeVars, archiveVars, modelVars, runVars,
                   historyVars>>

\* The calls a run makes, with names of folder_structure in any order.
NextFolders ==
    \/ \E name \in Range(folder_structure) : GetFolderIdFound(name)
    \/ \E name \in Range(folder_structure) : GetFolderIdCreates(name)
    \/ GetFolderIdRaises

\* A store before any file is in it, with some of the folders set up already,
\* each once.
InitFolders ==
    /\ pc = "get_folder_id"
    /\ folders \in SUBSET AllFolders
    /\ resolved = <<>>
    /\ other = NotStarted
    /\ overlap = FALSE
    /\ first = NoRun
    /\ now = CHOOSE d \in NowChoices : TRUE
    /\ zoned = FALSE
    /\ retention_config = DefaultConfig
    /\ raw_data = {}
    /\ processed_data = {}
    /\ models = {}
    /\ compressed = {}
    /\ backups = {}
    /\ logs = <<>>
    /\ metrics = <<>>
    /\ monthly_groups = <<>>
    /\ grp = 0
    /\ pos = 1
    /\ monthly_data = <<>>
    /\ model_performance = <<>>
    /\ sorted_models = <<>>
    /\ i = 0
    /\ passes = 0
    /\ move_calls = {}
    /\ move_failed = {}
    /\ root = {}
    /\ files = <<>>
    /\ used_gb_after = NotRead
    /\ target_reduction = 0
    /\ freed_space = 0
    /\ report = NoReport
    /\ raw_before = {}
    /\ download_failed = {}
    /\ delete_calls = {}
    /\ upload_failed = {}

SpecFolders == InitFolders /\ [][NextFolders]_vars

\* ------------------------------------------------------ generate_storage_report
\* get_storage_usage reads the limit of the quota: 15 GB.
limit_gb == 15

\* The three threshold tests, with >= for > in the test of the raw files.
RecommendationsInclusive(used, counts) ==
    (IF 10 * used > 8 * limit_gb * GB THEN {"run cleanup"} ELSE {}) \cup
    (IF counts.raw_data >= 100 THEN {"compress older data"} ELSE {}) \cup
    (IF counts.models > 10 THEN {"prune model versions"} ELSE {})

\* The three threshold tests, on the usage read and the file counts.
Recommendations(used, counts) ==
    (IF 10 * used > 8 * limit_gb * GB THEN {"run cleanup"} ELSE {}) \cup
    (IF counts.raw_data > 100 THEN {"compress older data"} ELSE {}) \cup
    (IF counts.models > 10 THEN {"prune model versions"} ELSE {})

\* len(files) of each folder of folder_structure; forex_logs holds the reports
\* and, when there are metrics, the metrics file.
FileCounts ==
    [raw_data |-> Cardinality(raw_data),
     processed_data |-> Cardinality(processed_data),
     models |-> Cardinality(models),
     compressed |-> Cardinality(compressed),
     backups |-> Cardinality(backups),
     logs |-> Len(logs) + (IF metrics = <<>> THEN 0 ELSE 1)]

\* The report dict (folder_sizes left out), for a usage read.
StorageReport(used) ==
    [timestamp |-> now,
     used_gb |-> used,
     limit_gb |-> limit_gb * GB,
     file_counts |-> FileCounts,
     recommendations |-> Recommendations(used, FileCounts)]

\* As GenerateReport, with the report saved under one fixed name, in place of
\* the report that was there.
GenerateReportOverwrites ==
    /\ pc = "report"
    /\ \E used \in UsageChoices :
           /\ report' = StorageReport(used)
           /\ logs' = <<StorageReport(used)>>
    /\ pc' = "summary"
    /\ UNCHANGED <<clockVars, concurrentVars, rerunVars, folderVars, raw_data, processed_data, models, compressed,
                   backups, metrics, root, archiveVars, modelVars, files, used_gb_after,
                   target_reduction, freed_space, historyVars>>

\* generate_storage_report: the usage, the six listings, the recommendations
\* and save_storage_report, which uploads the report to forex_logs.
GenerateReport ==
    /\ pc = "report"
    /\ \E used \in UsageChoices :
           /\ report' = StorageReport(used)
           /\ logs' = Append(logs, StorageReport(used))
    /\ pc' = "summary"
    /\ UNCHANGED <<clockVars, concurrentVars, rerunVars, folderVars, raw_data, processed_data, models, compressed, backups,
                   metrics, root, archiveVars, modelVars, files, used_gb_after,
                   target_reduction, freed_space, historyVars>>

\* get_storage_usage, a folder lookup, a listing or the upload of the report
\* raises.
GenerateReportRaises ==
    /\ pc = "report"
    /\ Raise
    /\ UNCHANGED <<clockVars, concurrentVars, rerunVars, folderVars, storeVars, archiveVars, modelVars, runVars, historyVars>>

\* ---------------------------------------------------------------- run_full_cleanup
\* 1. get_storage_usage.
RunStart ==
    /\ pc = "run_start"
    /\ pc' = "optimize"
    /\ UNCHANGED <<clockVars, concurrentVars, rerunVars, folderVars, storeVars, archiveVars, modelVars, runVars, historyVars>>

\* 1. get_storage_usage raises.
RunStartRaises ==
    /\ pc = "run_start"
    /\ Raise
    /\ UNCHANGED <<clockVars, concurrentVars, rerunVars, folderVars, storeVars, archiveVars, modelVars, runVars, historyVars>>

\* The name of a file of the root folder, in parts: data file f is named as
\* raw file f, model artifact m is 'forex_model_m.h5'.
RootName(x) ==
    IF x[1] = "model" THEN <<"forex_model_", x[2], ".h5">> ELSE RawName(x[2])

\* 'forex_data_' in file['name']
IsDataName(name) == name[1] = "forex_data_"

\* 'model' in file['name'].lower()
IsModelName(name) == name[1] = "forex_model_"

\* target_folder, without the test for 'compressed' in the first rule.
target_folder_unmarked(x) ==
    LET name == RootName(x)
    IN  IF IsDataName(name) THEN "raw_data"
        ELSE IF IsModelName(name) THEN "models"
        ELSE IF IsCompressedName(name) THEN "compressed"
        ELSE "none"

\* The folder organize_misplaced_files picks for a file of the root folder,
\* by its name; "none" when no rule applies.
target_folder(x) ==
    LET name == RootName(x)
    IN  IF IsDataName(name) /\ ~IsCompressedName(name) THEN "raw_data"
        ELSE IF IsModelName(name) THEN "models"
        ELSE IF IsCompressedName(name) THEN "compressed"
        ELSE "none"

\* Data file f of the root folder as a file of forex_compressed: the move
\* leaves its name, content and createdTime as they are.
MisplacedArchive(f) ==
    [id |-> NewArchiveId + f,
     name |-> RawName(f),
     rows |-> RawRows(f),
     createdTime |-> RawCreated(f)]

\* The files of a set of root files picked for a folder.
PickedFor(folder, moved) == {x[2] : x \in {y \in moved : target_folder(y) = folder}}

\* 2. optimize_storage_structure: the six folder lookups, then
\* organize_misplaced_files, which moves each file of the root folder into
\* the folder picked for it; move_file_to_folder catches a move that raises
\* and the file stays in the root folder.
OptimizeStructure ==
    /\ pc = "optimize"
    /\ \E moved \in SUBSET {x \in root : target_folder(x) # "none"} :
           /\ raw_data' = raw_data \cup PickedFor("raw_data", moved)
           /\ models' = models \cup PickedFor("models", moved)
           /\ compressed' = compressed \cup
                              {MisplacedArchive(f) : f \in PickedFor("compressed", moved)}
           /\ root' = root \ moved
    /\ pc' = "compress_list"
    /\ UNCHANGED <<clockVars, concurrentVars, rerunVars, folderVars, processed_data, backups, logs,
                   metrics, archiveVars, modelVars, runVars, historyVars>>

\* 2. A folder lookup or the listing of the root folder raises.
OptimizeStructureRaises ==
    /\ pc = "optimize"
    /\ Raise
    /\ UNCHANGED <<clockVars, concurrentVars, rerunVars, folderVars, storeVars, archiveVars, modelVars, runVars, historyVars>>

\* 6. get_storage_usage and the test that decides on emergency_cleanup.
Recheck ==
    /\ pc = "recheck"
    /\ \E used \in UsageChoices :
           /\ used_gb_after' = used
           /\ pc' = IF OverQuota(used) THEN "emergency_start" ELSE "report"
    /\ UNCHANGED <<clockVars, concurrentVars, rerunVars, folderVars, storeVars, archiveVars, modelVars, files,
                   target_reduction, freed_space, report, historyVars>>

\* 6. get_storage_usage raises.
RecheckRaises ==
    /\ pc = "recheck"
    /\ Raise
    /\ UNCHANGED <<clockVars, concurrentVars, rerunVars, folderVars, storeVars, archiveVars, modelVars, runVars, historyVars>>

\* 8. get_storage_usage, the summary and return final_report.
Summary ==
    /\ pc = "summary"
    /\ pc' = "returned"
    /\ UNCHANGED <<clockVars, concurrentVars, rerunVars, folderVars, storeVars, archiveVars, modelVars, runVars, historyVars>>

\* 8. get_storage_usage raises.
SummaryRaises ==
    /\ pc = "summary"
    /\ Raise
    /\ UNCHANGED <<clockVars, concurrentVars, rerunVars, folderVars, storeVars, archiveVars, modelVars, runVars, historyVars>>

\* ------------------------------------------------------------------------- main
\* report['storage_usage']['usage_percentage'] > 90
UsageCritical(rep) == 100 * rep.used_gb > 90 * rep.limit_gb

\* The completion status of the command at a position: main returns and the
\* interpreter exits with 0; an exception nobody catches makes it exit with 1.
ExitStatus(p) == IF p = "raised" THEN 1 ELSE 0

\* main after run_full_cleanup returned, with the usage above 90%: the alert
\* is printed and main returns.
MainAlert ==
    /\ pc = "returned"
    /\ UsageCritical(report)
    /\ pc' = "exit_0"
    /\ UNCHANGED <<clockVars, concurrentVars, rerunVars, folderVars, storeVars, archiveVars, modelVars, runVars,
                   historyVars>>

\* main after run_full_cleanup returned, with the usage at 90% or less: main
\* returns.
MainQuiet ==
    /\ pc = "returned"
    /\ ~UsageCritical(report)
    /\ pc' = "exit_0"
    /\ UNCHANGED <<clockVars, concurrentVars, rerunVars, folderVars, storeVars, archiveVars, modelVars, runVars,
                   historyVars>>

NextClean ==
    \/ CleanList
    \/ CleanListRaises
    \/ CleanDeleteOk
    \/ CleanDeleteFails

NextRun ==
    \/ RunStart
    \/ RunStartRaises
    \/ OptimizeStructure
    \/ OptimizeStructureRaises
    \/ Recheck
    \/ RecheckRaises
    \/ GenerateReport
    \/ GenerateReportRaises
    \/ Summary
    \/ SummaryRaises
    \/ MainAlert
    \/ MainQuiet

\* The files of the store a whole run is followed on.
RunRaw == {1, 2, 3}
RunProcessed == {1, 2, 3}
RunModels == {1, 2, 3, 4, 5, 6}

\* An archive an earlier run left in forex_compressed, created on a day.
EarlierArchive(day) ==
    [id |-> 1,
     name |-> <<"forex_data_", MonthKey(day - 40), "_compressed.csv.gz">>,
     rows |-> <<9>>,
     createdTime |-> day]

\* The report an earlier run saved to forex_logs.
EarlierReport ==
    [timestamp |-> 700,
     used_gb |-> max_storage_gb * GB,
     limit_gb |-> limit_gb * GB,
     file_counts |-> [raw_data |-> 0, processed_data |-> 0, models |-> 0,
                      compressed |-> 0, backups |-> 0, logs |-> 0],
     recommendations |-> {}]

\* The manager as constructed and the store a run of run_full_cleanup may
\* find: no raw file at all, or raw files in the raw folder with or without
\* one misplaced in the root folder; six models, one more than
\* backup_best_models, of which one has a metric; processed files; the report
\* of an earlier run; and an archive of an
\* earlier run that is older than compressed_data_months on the later of the
\* two clock readings only.
Init ==
    /\ pc = "run_start"
    /\ now \in NowChoices
    /\ zoned \in BOOLEAN
    /\ retention_config = DefaultConfig
    /\ root \in {{}, {<<"data", 1>>}}
    /\ raw_data \in {{}, RunRaw \ {x[2] : x \in root}}
    /\ processed_data = RunProcessed
    /\ models = RunModels
    /\ compressed = {EarlierArchive(430)}
    /\ backups = {}
    /\ logs = <<EarlierReport>>
    /\ metrics = [m \in {1} |-> 7]
    /\ monthly_groups = <<>>
    /\ grp = 0
    /\ pos = 1
    /\ monthly_data = <<>>
    /\ model_performance = <<>>
    /\ sorted_models = <<>>
    /\ i = 0
    /\ passes = 0
    /\ move_calls = {}
    /\ move_failed = {}
    /\ files = <<>>
    /\ used_gb_after = NotRead
    /\ target_reduction = 0
    /\ freed_space = 0
    /\ report = NoReport
    /\ raw_before = {}
    /\ download_failed = {}
    /\ delete_calls = {}
    /\ upload_failed = {}
    /\ folders = AllFolders
    /\ resolved = <<>>
    /\ other = NotStarted
    /\ overlap = FALSE
    /\ first = NoRun

Next ==
    \/ NextRun
    \/ NextArchive
    \/ NextModels
    \/ NextClean
    \/ NextEmergency

Spec == Init /\ [][Next]_vars

\* ------------------------------------- the reorganization and the archive pass
NextOrganize ==
    \/ OptimizeStructure
    \/ OptimizeStructureRaises
    \/ NextArchive

\* The files the root folder may hold when a run comes to it: data files,
\* every third one named as an archive, and a model artifact.
RootChoices == {<<"data", f>> : f \in RawIds \ {2}} \cup {<<"model", 1>>}

\* The store before the reorganization of a run, as a run may find it: files
\* misplaced in the root folder, a raw folder that holds raw file 2 or
\* nothing, an archives folder that holds the archive of an earlier run or
\* nothing.
InitOrganize ==
    /\ pc = "optimize"
    /\ now \in NowChoices
    /\ zoned = FALSE
    /\ retention_config = DefaultConfig
    /\ root \in SUBSET RootChoices
    /\ raw_data \in SUBSET {2}
    /\ processed_data = {}
    /\ models = {}
    /\ compressed \in {{}, {EarlierArchive(430)}}
    /\ backups = {}
    /\ logs = <<>>
    /\ metrics = <<>>
    /\ monthly_groups = <<>>
    /\ grp = 0
    /\ pos = 1
    /\ monthly_data = <<>>
    /\ model_performance = <<>>
    /\ sorted_models = <<>>
    /\ i = 0
    /\ passes = 0
    /\ move_calls = {}
    /\ move_failed = {}
    /\ files = <<>>
    /\ used_gb_after = NotRead
    /\ target_reduction = 0
    /\ freed_space = 0
    /\ report = NoReport
    /\ raw_before = {}
    /\ download_failed = {}
    /\ delete_calls = {}
    /\ upload_failed = {}
    /\ folders = AllFolders
    /\ resolved = <<>>
    /\ other = NotStarted
    /\ overlap = FALSE
    /\ first = NoRun

SpecOrganize == InitOrganize /\ [][NextOrganize]_vars

\* ------------------------------------------------------- one run after the other
\* Every remote call of the run that is over succeeded: no exception, no
\* download, upload or move that failed, the metrics as stored, every file of
\* the root folder moved and every file delete_file was called with gone.
Succeeded ==
    /\ pc = "exit_0"
    /\ download_failed = {}
    /\ upload_failed = {}
    /\ move_failed = {}
    /\ model_performance = metrics
    /\ root = {}
    /\ \A c \in delete_calls :
           /\ c[1] = "raw_data" => c[2] \notin raw_data
           /\ c[1] = "processed_data" => c[2] \notin processed_data
           /\ c[1] = "models" => c[2] \notin models
           /\ c[1] = "compressed" => \A a \in compressed : a.id # c[2]

\* emergency_cleanup, if it was called, read the usage run_full_cleanup had
\* just read: nothing changed the store in between.
Steady ==
    target_reduction = IF OverQuota(used_gb_after)
                       THEN TargetReduction(used_gb_after)
                       ELSE 0

\* The scheduled job starts the command again.  The new process has its own
\* locals and the record of calls starts anew; the store is as the run before
\* left it, and that run's end is kept for comparison.
RunAgain ==
    /\ pc \in {"exit_0", "raised"}
    /\ first = NoRun
    /\ first' = [pc |-> pc,
                 monthly_groups |-> monthly_groups,
                 succeeded |-> Succeeded,
                 steady |-> Steady,
                 left |-> IF used_gb_after = NotRead THEN NotRead
                          ELSE used_gb_after - freed_space,
                 store |-> <<raw_data, processed_data, models, compressed, backups,
                             metrics, root>>]
    /\ pc' = "run_start"
    /\ monthly_groups' = <<>>
    /\ grp' = 0
    /\ pos' = 1
    /\ monthly_data' = <<>>
    /\ model_performance' = <<>>
    /\ sorted_models' = <<>>
    /\ i' = 0
    /\ move_calls' = {}
    /\ move_failed' = {}
    /\ files' = <<>>
    /\ used_gb_after' = NotRead
    /\ target_reduction' = 0
    /\ freed_space' = 0
    /\ report' = NoReport
    /\ raw_before' = {}
    /\ download_failed' = {}
    /\ delete_calls' = {}
    /\ upload_failed' = {}
    /\ UNCHANGED <<clockVars, concurrentVars, folderVars, storeVars, passes>>

\* With two models to keep or back up the model pass deletes none, and with
\* one processed file emergency_cleanup never leaves its loop by the break:
\* every other step of the run is there.
NextRerun ==
    \/ NextRun
    \/ NextArchive
    \/ ManageList
    \/ ManageListNoMetrics
    \/ ManageListRaises
    \/ KeepModel
    \/ MoveOk
    \/ MoveFails
    \/ NextClean
    \/ EmergencyStart
    \/ EmergencyStartRaises
    \/ EmergencyDeleteOk
    \/ EmergencyDeleteFails
    \/ RunAgain

\* The store two runs are followed on: a raw file older than the window,
\* nothing misplaced in the root folder, two models and a configuration that
\* keeps one and backs up one, a processed file and the archive of an
\* earlier run, old enough to be pruned.
InitRerun ==
    /\ pc = "run_start"
    /\ now = 800
    /\ zoned = FALSE
    /\ retention_config = [old_models_keep |-> 1, backup_best_models |-> 2]
    /\ root = {}
    /\ raw_data = {1}
    /\ processed_data = {2}
    /\ models = {1, 2}
    /\ compressed = {EarlierArchive(430)}
    /\ backups = {}
    /\ logs = <<EarlierReport>>
    /\ metrics = [m \in {1} |-> 7]
    /\ monthly_groups = <<>>
    /\ grp = 0
    /\ pos = 1
    /\ monthly_data = <<>>
    /\ model_performance = <<>>
    /\ sorted_models = <<>>
    /\ i = 0
    /\ passes = 0
    /\ move_calls = {}
    /\ move_failed = {}
    /\ files = <<>>
    /\ used_gb_after = NotRead
    /\ target_reduction = 0
    /\ freed_space = 0
    /\ report = NoReport
    /\ raw_before = {}
    /\ download_failed = {}
    /\ delete_calls = {}
    /\ upload_failed = {}
    /\ folders = AllFolders
    /\ resolved = <<>>
    /\ other = NotStarted
    /\ overlap = FALSE
    /\ first = NoRun

SpecRerun == InitRerun /\ [][NextRerun]_vars

\* ------------------------------------------- generate_storage_report, by itself
\* How many files the raw folder and the models folder may hold when a report
\* is made: around the two thresholds.
RawCounts == {0, 99, 100, 101, 102}
ModelCounts == {9, 10, 11, 12}

\* generate_storage_report as run_full_cleanup and setup_initial_structure
\* call it, and the end of the run.
NextReport ==
    \/ GenerateReport
    \/ GenerateReportRaises
    \/ Summary
    \/ SummaryRaises

\* The store before a report is made.
InitReport ==
    /\ pc = "report"
    /\ now \in NowChoices
    /\ zoned = FALSE
    /\ retention_config = DefaultConfig
    /\ raw_data \in {1..n : n \in RawCounts}
    /\ processed_data = {}
    /\ models \in {1..n : n \in ModelCounts}
    /\ compressed = {}
    /\ backups = {}
    /\ logs = <<>>
    /\ metrics = <<>>
    /\ monthly_groups = <<>>
    /\ grp = 0
    /\ pos = 1
    /\ monthly_data = <<>>
    /\ model_performance = <<>>
    /\ sorted_models = <<>>
    /\ i = 0
    /\ passes = 0
    /\ move_calls = {}
    /\ move_failed = {}
    /\ root = {}
    /\ files = <<>>
    /\ used_gb_after = NotRead
    /\ target_reduction = 0
    /\ freed_space = 0
    /\ report = NoReport
    /\ raw_before = {}
    /\ download_failed = {}
    /\ delete_calls = {}
    /\ upload_failed = {}
    /\ folders = AllFolders
    /\ resolved = <<>>
    /\ other = NotStarted
    /\ overlap = FALSE
    /\ first = NoRun

SpecReport == InitReport /\ [][NextReport]_vars

\* =================================================================== claims
\* ---- archive pass (SpecArchive)
\* The rows some file of the raw folder holds.
RowsInRaw == UNION {Range(RawRows(f)) : f \in raw_data}

\* The rows some uploaded archive holds.
RowsInArchives == UNION {Range(a.rows) : a \in compressed}

\* The rows the raw folder held when the pass listed it.
RowsBefore == UNION {Range(RawRows(f)) : f \in raw_before}

\* C1: in every state of the archive pass, every row a raw file held at the
\* start of the pass is still held by a raw file that was not deleted or by
\* an archive whose upload succeeded.
C1_NoDataLoss == RowsBefore \subseteq (RowsInRaw \cup RowsInArchives)

\* The months of the dict whose upload raised, with their member files.
FailedGroups == {n \in 1..Len(monthly_groups) : monthly_groups[n].month \in upload_failed}

\* C2: for a month whose archive upload raised, delete_file was called for no
\* member file of the month, and every member file is still in the raw folder.
C2_ArchiveSafety ==
    \A n \in FailedGroups :
        \A f \in Range(monthly_groups[n].files) :
            /\ <<"raw_data", f>> \notin delete_calls
            /\ f \in raw_data

\* C2's case: an upload raised in a pass that had already deleted the files of
\* an earlier month.
C2_Witness ==
    /\ upload_failed # {}
    /\ delete_calls # {}
    /\ pc = "raised"

\* C3: a raw file whose download or parse failed is not deleted in that run:
\* no delete_file call is made for it and it is still in the raw folder.
C3_FailedDownloadKept ==
    \A f \in download_failed :
        /\ <<"raw_data", f>> \notin delete_calls
        /\ f \in raw_data

\* ---- model pass (SpecModels)
Min(a, b) == IF a <= b THEN a ELSE b
Max(a, b) == IF a >= b THEN a ELSE b

\* The artifacts at ranks a..b of sorted_models (ranks count from 1).
Ranked(a, b) == {sorted_models[n].file : n \in a..b}

\* How many artifacts of sorted_models the loop has dealt with.
Processed == IF pc = "manage_loop" THEN i ELSE Len(sorted_models)

\* The models delete_file was called with in this run.
ModelDeleteCalls == {m \in 0..MaxModels : <<"models", m>> \in delete_calls}

\* C6: of the ranked artifacts the loop has dealt with, the first
\* old_models_keep are left in the models folder with no call made for them,
\* the next (backup_best_models - old_models_keep) are exactly those
\* move_file_to_backup was called with, and all the others are exactly those
\* delete_file was called with; no artifact is both moved and deleted.
C6_ThreeTiers ==
    LET keep == retention_config.old_models_keep
        next == Max(0, retention_config.backup_best_models - keep)
    IN  /\ Ranked(1, Min(keep, Processed)) \subseteq models
        /\ Ranked(1, Min(keep, Processed)) \cap (move_calls \cup ModelDeleteCalls) = {}
        /\ move_calls = Ranked(keep + 1, Min(keep + next, Processed))
        /\ ModelDeleteCalls = Ranked(keep + next + 1, Processed)
        /\ move_calls \cap ModelDeleteCalls = {}

\* C6's case: a pass that left one artifact, moved one and deleted one.
C6_Witness ==
    /\ pc = "clean_list"
    /\ Len(sorted_models) = 3
    /\ Cardinality(move_calls) = 1
    /\ Cardinality(ModelDeleteCalls) = 1
    /\ Cardinality(backups) = 1
    /\ Cardinality(models \cap ModelIds) = 1

\* The listing [A:0.9, B:0.9, C:0.7] ranked: A is file 3, B file 2, C file 1.
ExampleRanking ==
    <<[file |-> 3, performance |-> 9],
      [file |-> 2, performance |-> 9],
      [file |-> 1, performance |-> 7]>>

\* The example's configuration and its pass, over.
ExampleDone ==
    /\ sorted_models = ExampleRanking
    /\ retention_config = [old_models_keep |-> 1, backup_best_models |-> 2]
    /\ pc = "clean_list"

\* C7: sorted_models is in descending order of performance, two artifacts of
\* equal performance are in the order of the remote listing (descending
\* modifiedTime, which is descending id), and for [A:0.9, B:0.9, C:0.7] with
\* old_models_keep = 1 and backup_best_models = 2, A is left alone, B is the one
\* moved and C the one deleted.
C7_StableRanking ==
    /\ \A a, b \in 1..Len(sorted_models) :
           a < b =>
               /\ sorted_models[a].performance >= sorted_models[b].performance
               /\ sorted_models[a].performance = sorted_models[b].performance
                      => sorted_models[a].file > sorted_models[b].file
    /\ ExampleDone =>
           /\ 3 \in models
           /\ move_calls = {2}
           /\ ModelDeleteCalls = {1}

\* C7's case: the example's pass is over.
C7_Witness == ExampleDone /\ 3 \in models /\ 2 \in backups

\* C8: an artifact with no recorded metric ranks after every artifact that
\* has one.
C8_DefaultedRankLast ==
    \A a, b \in 1..Len(sorted_models) :
        (/\ sorted_models[a].file \notin DOMAIN model_performance
         /\ sorted_models[b].file \in DOMAIN model_performance) => b < a

\* C9, in every state: a model whose move raised is in the models folder, not
\* in backups, and delete_file was not called with it.
C9_Kept ==
    \A m \in move_failed :
        /\ m \in models
        /\ m \notin backups
        /\ m \notin ModelDeleteCalls

\* C9, in every step: the step in which a move raises takes the loop to its
\* next artifact (or ends the pass, after the last), and the listing of the
\* next run's pass ranks every model whose move raised in the run before.
C9_Step ==
    /\ move_failed' # move_failed /\ move_failed' # {} =>
           IF i + 1 < Len(sorted_models)
           THEN pc' = "manage_loop" /\ i' = i + 1
           ELSE pc' = "clean_list"
    /\ pc = "manage_list" /\ pc' # "raised" =>
           move_failed \subseteq {sorted_models'[n].file : n \in 1..Len(sorted_models')}

\* C9: a failed move neither deletes nor relocates the model, the pass goes on
\* and the next run evaluates the model again.
C9_FailedMoveKept == [](C9_Kept) /\ [][C9_Step]_vars

\* C9's case: the next run is about to list the models folder, which holds a
\* model whose move raised in the run before.
C9_Witness ==
    /\ pc = "manage_list"
    /\ passes >= 1
    /\ move_failed # {}
    /\ move_failed \subseteq models

\* ---- the whole run (Spec)
\* C4: a run that has ended has returned a report: it never ends by an
\* exception before generate_storage_report has run and returned.
C4_RunEndsWithReport ==
    pc \in {"returned", "raised"} => pc = "returned" /\ report # NoReport

\* The phase a position of the run belongs to: 1 inventory (usage and folder
\* structure), 2 archiving, 3 model pruning, 4 pruning of old archives, 5 usage
\* recheck, 6 emergency reclaim, 7 reporting, 8 done (returned to main, exited).
PhaseOf(p) ==
    CASE p \in {"run_start", "optimize"} -> 1
      [] p \in {"compress_list", "compress_download", "compress_upload",
                "compress_delete"} -> 2
      [] p \in {"manage_list", "manage_loop"} -> 3
      [] p \in {"clean_list", "clean_loop"} -> 4
      [] p = "recheck" -> 5
      [] p \in {"emergency_start", "emergency_loop"} -> 6
      [] p \in {"report", "summary"} -> 7
      [] p \in {"returned", "exit_0"} -> 8

\* The processed files delete_file was called with in this run.
ProcessedDeleteCalls == {p \in ProcIds : <<"processed_data", p>> \in delete_calls}

\* C5, in every step of a run that goes on: the phase stays, or the next phase
\* begins, or the recheck goes straight to reporting; the emergency phase
\* begins only with a usage after the regular passes above max_storage_gb; and
\* a processed file is deleted, or delete_file called with one, only in a run
\* whose usage after the regular passes was above max_storage_gb.
C5_Step ==
    /\ pc' # "raised" =>
           \/ PhaseOf(pc') = PhaseOf(pc)
           \/ PhaseOf(pc') = PhaseOf(pc) + 1
           \/ PhaseOf(pc) = 5 /\ PhaseOf(pc') = 7
    /\ pc' # "raised" /\ PhaseOf(pc) = 5 /\ PhaseOf(pc') = 6 =>
           used_gb_after' > max_storage_gb * GB
    /\ (processed_data' # processed_data \/ ProcessedDeleteCalls' # ProcessedDeleteCalls) =>
           used_gb_after # NotRead /\ used_gb_after > max_storage_gb * GB

\* C5: a run starts with the inventory, its phases come in the fixed order, and
\* the emergency reclaim and every deletion of a processed file need a usage
\* above max_storage_gb after the regular passes.
C5_PhaseOrder == pc = "run_start" /\ [][C5_Step]_vars

\* C5's case: a run that went through every phase, the emergency reclaim
\* included, deleted a processed file and returned.
C5_Witness ==
    /\ pc = "returned"
    /\ used_gb_after > max_storage_gb * GB
    /\ ProcessedDeleteCalls # {}
    /\ processed_data # RunProcessed

\* ---- emergency pass (SpecEmergency)
RECURSIVE SumSize(_)
\* The sizes of a set of processed files, added up.
SumSize(S) ==
    IF S = {} THEN 0
    ELSE LET p == CHOOSE x \in S : TRUE IN ProcSize(p) + SumSize(S \ {p})

\* The candidates the loop is past.
Tried == {files[n] : n \in 1..(pos - 1)}

\* C10, in every state of the loop: the candidates are in order of creation,
\* oldest first; delete_file was called with exactly the candidates the loop
\* is past; and freed_space is the size of those of them that are gone, so
\* that a delete that failed has added nothing.
C10_Loop ==
    pc = "emergency_loop" =>
        /\ \A a, b \in 1..Len(files) : a < b => files[a] < files[b]
        /\ ProcessedDeleteCalls = Tried
        /\ freed_space = SumSize(Tried \ processed_data)

\* C10, in every step from the loop: once freed_space is at least
\* target_reduction no file is deleted and delete_file is not called; and the
\* loop is left only with the target reached or at its last candidate.
C10_Step ==
    pc = "emergency_loop" =>
        /\ freed_space >= target_reduction =>
               /\ processed_data' = processed_data
               /\ delete_calls' = delete_calls
        /\ pc' # "emergency_loop" =>
               \/ freed_space >= target_reduction
               \/ pos = Len(files)

\* C10: the emergency loop deletes oldest first, stops deleting once the freed
\* space reaches the target, counts only deletes that succeeded, and otherwise
\* ends when the candidates are exhausted.
C10_ReclaimLoop == [](C10_Loop) /\ [][C10_Step]_vars

\* C10's case: the target is reached after a delete that failed, with a
\* candidate left that is not deleted.
C10_Witness ==
    /\ pc = "emergency_loop"
    /\ freed_space >= target_reduction
    /\ Tried \cap processed_data # {}
    /\ pos <= Len(files)

\* The processed files emergency_cleanup listed: those still in the folder and
\* those it deleted.
Candidates == processed_data \cup ProcessedDeleteCalls

\* emergency_cleanup found the usage above max_storage_gb and set a target.
Reclaiming == target_reduction > 0

\* The warnings of the report the run returned.
Warnings == report.recommendations

\* C11: after an emergency reclaim whose candidates add up to the target and
\* whose deletes all succeeded, freed_space is at least target_reduction (with
\* 14 GB used and max_storage_gb 12, at least 3 GB); and the report of a run
\* whose reclaim ran out of candidates short of the target holds a warning.
C11_ReclaimSufficiency ==
    /\ (/\ pc \in {"report", "summary", "returned"}
        /\ Reclaiming
        /\ ProcessedDeleteCalls \cap processed_data = {}
        /\ SumSize(Candidates) >= target_reduction)
           => freed_space >= target_reduction
    /\ (/\ pc \in {"summary", "returned"}
        /\ Reclaiming
        /\ freed_space < target_reduction)
           => Warnings # {}

\* C11, the first half alone.
C11_Sufficient ==
    (/\ pc \in {"report", "summary", "returned"}
     /\ Reclaiming
     /\ ProcessedDeleteCalls \cap processed_data = {}
     /\ SumSize(Candidates) >= target_reduction)
        => freed_space >= target_reduction

\* The handles delete_file was called with for files outside the processed
\* category.
OtherDeleteCalls == {c \in delete_calls : c[1] # "processed_data"}

\* C12, in every step of emergency_cleanup: the raw, models, compressed,
\* backups and logs folders (and the root folder) hold the files they held,
\* and delete_file is called with a processed file or not at all.
C12_Step ==
    pc \in {"emergency_start", "emergency_loop"} =>
        /\ raw_data' = raw_data
        /\ models' = models
        /\ compressed' = compressed
        /\ backups' = backups
        /\ logs' = logs
        /\ metrics' = metrics
        /\ root' = root
        /\ OtherDeleteCalls' = OtherDeleteCalls

\* C12: emergency reclamation deletes only files of the processed category.
C12_OnlyProcessed == [][C12_Step]_vars

\* C12's case: the reclaim ended short of its target with every candidate
\* tried, and the models, compressed and backups folders still hold files.
C12_Witness ==
    /\ pc = "report"
    /\ Reclaiming
    /\ freed_space < target_reduction
    /\ ProcessedDeleteCalls = RunProcessed
    /\ models # {}
    /\ compressed # {}
    /\ backups # {}

\* ---- archive pass (SpecArchive), grouping
\* The raw files some monthly group holds.
Grouped == UNION {Range(monthly_groups[n].files) : n \in 1..Len(monthly_groups)}

\* The raw files delete_file was called with in this run.
RawDeleteCalls == {f \in raw_before : <<"raw_data", f>> \in delete_calls}

\* The listed raw files created within the retention window, the cutoff day
\* included.
Recent == {f \in raw_before : RawCreated(f) >= now - raw_data_days}

\* C13: every grouped file was created strictly before now - raw_data_days,
\* and a listed file created within the window is in no group, is not
\* downloaded, is not passed to delete_file and stays in the raw folder.
C13_RetentionWindow ==
    /\ \A f \in Grouped : RawCreated(f) < now - raw_data_days
    /\ \A f \in Recent :
           /\ f \notin Grouped
           /\ f \notin download_failed
           /\ f \notin RawDeleteCalls
           /\ f \in raw_data

\* C13's case: the pass is over, the older files are archived and deleted and
\* the file created exactly raw_data_days ago is still in the raw folder.
C13_Witness ==
    /\ pc = "manage_list"
    /\ \E f \in Recent : RawCreated(f) = now - raw_data_days /\ f \in raw_data
    /\ RawDeleteCalls # {}
    /\ compressed # {}

\* The orders a set of files can be listed in.
Orders(S) ==
    {listing \in [1..Cardinality(S) -> S] : \A f \in S : \E n \in DOMAIN listing : listing[n] = f}

\* The mapping of a dict of monthly groups: each month key with the set of
\* its files.
GroupMap(groups) == {<<groups[n].month, Range(groups[n].files)>> : n \in 1..Len(groups)}

\* Where file f is in a dict of monthly groups.
PlacesOf(groups, f) ==
    {<<n, k>> \in (1..Len(groups)) \X (1..Cardinality(raw_before)) :
        k <= Len(groups[n].files) /\ groups[n].files[k] = f}

\* A dict of monthly groups has each month key once, holds each listed file
\* older than the cutoff exactly once, under the year and month of its
\* createdTime, and holds no other file.
IsMonthPartition(groups) ==
    /\ \A a, b \in 1..Len(groups) : groups[a].month = groups[b].month => a = b
    /\ \A f \in raw_before :
           IF RawCreated(f) < cutoff_date
           THEN /\ Cardinality(PlacesOf(groups, f)) = 1
                /\ \A p \in PlacesOf(groups, f) : groups[p[1]].month = MonthKey(RawCreated(f))
           ELSE PlacesOf(groups, f) = {}

\* C14: whatever order the raw files are listed in, the grouping loop gives
\* the mapping from month key to set of files that the pass has in
\* monthly_groups, and that mapping is a partition of the qualifying files by
\* the year and month of their createdTime.
C14_GroupingDeterministic ==
    (pc # "compress_list" /\ ~(zoned /\ raw_before # {})) =>
        /\ IsMonthPartition(monthly_groups)
        /\ \A listing \in Orders(raw_before) :
               /\ GroupMap(GroupByMonth(listing, cutoff_date, <<>>)) = GroupMap(monthly_groups)
               /\ IsMonthPartition(GroupByMonth(listing, cutoff_date, <<>>))

\* C14's case: three files older than the cutoff were grouped into two months,
\* one of them with two files.
C14_Witness ==
    /\ pc = "compress_download"
    /\ Len(monthly_groups) = 2
    /\ \E n \in 1..2 : Len(monthly_groups[n].files) = 2
    /\ Cardinality(Orders(raw_before)) = 6

\* The listed raw files whose name bears the compressed marker.
Marked == {f \in raw_before : IsCompressedName(RawName(f))}

\* C15: a raw file whose name bears the compressed marker is in no monthly
\* group, is not downloaded, is not passed to delete_file and stays in the raw
\* folder, whatever its age.
C15_MarkedExcluded ==
    \A f \in Marked :
        /\ f \notin Grouped
        /\ f \notin download_failed
        /\ f \notin RawDeleteCalls
        /\ f \in raw_data

\* The listed raw files older than the retention window, and their months.
OldListed == {f \in raw_before : RawCreated(f) < now - raw_data_days}
OldMonths == {MonthKey(RawCreated(f)) : f \in OldListed}

\* No remote call of the pass failed: every download and upload succeeded and
\* every file delete_file was called with is gone.
NoRemoteFailure ==
    /\ download_failed = {}
    /\ upload_failed = {}
    /\ RawDeleteCalls \cap raw_data = {}

\* C16: a pass that is over without a remote failure has uploaded one archive
\* for each month of the listed files older than the window, has called
\* delete_file once for each of those files, and has left none of them in the
\* raw folder.
C16_EndToEnd ==
    (pc \in {"manage_list", "raised"} /\ NoRemoteFailure) =>
        /\ Cardinality(compressed) = Cardinality(OldMonths)
        /\ RawDeleteCalls = OldListed
        /\ \A f \in raw_data : MonthKey(RawCreated(f)) \notin OldMonths

\* C16 for createdTime strings that carry no zone.
C16_EndToEndNoZone == ~zoned => C16_EndToEnd

\* The files of the month of archive a that were downloaded and parsed.
ReadFilesOf(a) ==
    UNION {Range(monthly_groups[n].files) \ download_failed :
              n \in {k \in 1..Len(monthly_groups) : monthly_groups[k].month = a.name[2]}}

\* C17: an uploaded archive holds no row twice, and its rows are exactly the
\* rows of the files of its month that were downloaded and parsed.
C17_DedupCorrect ==
    \A a \in compressed :
        /\ \A j, k \in 1..Len(a.rows) : a.rows[j] = a.rows[k] => j = k
        /\ Range(a.rows) = UNION {Range(RawRows(f)) : f \in ReadFilesOf(a)}

\* C17's case: the archive of two files that share a row, one of which holds
\* a row twice: five rows were read and three are in the archive.
C17_Witness ==
    \E a \in compressed :
        /\ Cardinality(ReadFilesOf(a)) = 2
        /\ Len(Concat([n \in 1..2 |-> RawRows(monthly_groups[1].files[n])])) = 5
        /\ a.name[2] = monthly_groups[1].month
        /\ Len(a.rows) = 3

\* ---- folder resolution (SpecFolders)
\* C18, in every state: the store holds at most one folder of each name.
C18_OneFolder ==
    \A name \in Range(folder_structure) : Cardinality(FoldersNamed(name)) <= 1

\* C18, in every step: a call with a name an earlier call of the run resolved
\* returns the handle that call returned, which is the handle of the folder of
\* that name, and creates nothing.
C18_Step ==
    Len(resolved') = Len(resolved) + 1 =>
        LET call == resolved'[Len(resolved')]
        IN  /\ \E f \in folders' : f.name = call.name /\ f.id = call.id
            /\ \A k \in 1..Len(resolved) :
                   resolved[k].name = call.name =>
                       /\ call.id = resolved[k].id
                       /\ folders' = folders

\* C18: get_folder_id never makes a second folder of a name, and a repeated
\* call returns the existing handle.
C18_Idempotent == [](C18_OneFolder) /\ [][C18_Step]_vars

\* C18's case: a folder that did not exist was resolved twice, created by the
\* first call and found by the second.
C18_Witness ==
    /\ Len(resolved) = 2
    /\ resolved[1] = resolved[2]
    /\ \E f \in folders \ AllFolders : f.name = resolved[1].name /\ f.id = resolved[1].id

\* ---- the report (SpecReport)
\* C19: the report that was made holds 'run cleanup' exactly when the usage it
\* read is above 80% of the limit, 'compress older data' exactly when the raw
\* folder holds more than 100 files, 'prune model versions' exactly when the
\* models folder holds more than 10, and nothing else.
C19_Thresholds ==
    report # NoReport =>
        /\ "run cleanup" \in report.recommendations
               <=> 10 * report.used_gb > 8 * report.limit_gb
        /\ "compress older data" \in report.recommendations
               <=> Cardinality(raw_data) > 100
        /\ "prune model versions" \in report.recommendations
               <=> Cardinality(models) > 10
        /\ report.recommendations \subseteq
               {"run cleanup", "compress older data", "prune model versions"}

\* C19 at the thresholds: with 100 raw files, 11 models and the usage at exactly 80% of
\* the limit, the report recommends pruning the models and nothing else.
C19_WitnessBoundary ==
    /\ pc = "returned"
    /\ Cardinality(raw_data) = 100
    /\ Cardinality(models) = 11
    /\ 10 * report.used_gb = 8 * report.limit_gb
    /\ report.recommendations = {"prune model versions"}

\* C19's case: with 101 raw files and 10 models the report recommends
\* compressing and not pruning.
C19_Witness ==
    /\ pc = "returned"
    /\ Cardinality(raw_data) = 101
    /\ Cardinality(models) = 10
    /\ "compress older data" \in report.recommendations
    /\ "prune model versions" \notin report.recommendations

\* ---- the logs folder (Spec)
\* C20, in every step of a run: the reports in forex_logs are the reports that
\* were there, unchanged and in their order, followed by the report the step
\* saved if it saved one; and the metrics file is as it was.
C20_Step ==
    /\ Len(logs') >= Len(logs)
    /\ SubSeq(logs', 1, Len(logs)) = logs
    /\ metrics' = metrics

\* C20: reports are only ever added to the logs folder.
C20_AppendOnly == [][C20_Step]_vars

\* C20's case: a run that archived and deleted files has returned, and the
\* logs folder holds the earlier report followed by the run's own.
C20_Witness ==
    /\ pc = "returned"
    /\ \E c \in delete_calls : c[1] = "raw_data"
    /\ Cardinality(compressed) >= 2
    /\ logs = <<EarlierReport, report>>

\* ---- failures of remote calls (Spec)
\* The comparison of an aware file_date with the naive cutoff_date is about to
\* raise TypeError: no remote call is involved.
TypeErrorAhead ==
    \/ pc = "compress_list" /\ zoned /\ raw_data # {}
    \/ pc = "clean_list" /\ zoned /\ compressed # {}

\* C21, in every step: the step of a pass in which the folders are looked up
\* (files().list by name) and the category is listed (files().list by parent)
\* does not end the run, unless by the TypeError of the date comparison: a
\* listing that keeps failing leaves the category empty for the run, which
\* goes on.
C21_Step ==
    (pc \in {"compress_list", "manage_list", "clean_list"} /\ ~TypeErrorAhead)
        => pc' # "raised"

\* C21: a listing call that errors does not abort the lifecycle run.
C21_ListingTolerated == [][C21_Step]_vars

\* ---- the command (Spec)
\* C22: the command that has ended did so with a status other than 0 exactly
\* when the usage percentage of its report is above 90.
C22_ExitStatus ==
    pc = "exit_0" => (ExitStatus(pc) # 0 <=> UsageCritical(report))

\* ---- the retention configuration (SpecModels)
\* A configuration with more models to keep than best models.
InvalidConfig(c) == c.old_models_keep > c.backup_best_models

AttemptsDeleted ==
    /\ pc \in {"compress_download", "compress_delete"}
    /\ month_files[pos] \notin raw_data
    /\ <<"raw_data", month_files[pos]>> \in delete_calls

\* Two archives of forex_compressed are named after the same month.
TwoArchivesOfMonth ==
    \E a, b \in compressed : a.id # b.id /\ a.name = b.name

\* C24: a process attempts the download or the delete of a raw file already
\* deleted only when the archive passes of two processes were under way
\* together: a pass that runs alone, or after the other one is over, reaches
\* no such state, with or without two archives of one month in the store.
C24_RaceNeedsOverlap ==
    AttemptsDeleted => overlap

\* C24's case: the race, with both the attempt on a deleted file and the two
\* archives of one month.
C24_Witness ==
    /\ overlap
    /\ AttemptsDeleted
    /\ TwoArchivesOfMonth

\* ---- pruning of the archives (Spec)
\* The day before which an archive is old enough to be pruned.
PruneCutoff == now - compressed_data_months * 30

\* A step of clean_old_compressed_data: the other folders keep their files,
\* no archive is added, every archive that goes and every handle delete_file
\* is called with is an archive created before the cutoff, and the archives
\* the archive pass of this run uploaded (created now) stay.
C28_Step ==
    pc \in {"clean_list", "clean_loop"} =>
        /\ UNCHANGED <<raw_data, processed_data, models, backups, logs, metrics, root>>
        /\ compressed' \subseteq compressed
        /\ \A a \in compressed \ compressed' : a.createdTime < PruneCutoff
        /\ \A c \in delete_calls' \ delete_calls :
               /\ c[1] = "compressed"
               /\ \E a \in compressed : a.id = c[2] /\ a.createdTime < PruneCutoff
        /\ \A a \in compressed : a.createdTime = now => a \in compressed'

\* C28: the pruning pass deletes only archives created before now minus
\* compressed_data_months times 30 days, changes no other folder, and leaves
\* the archives uploaded earlier in the same run.
C28_PruneOnlyOld == [][C28_Step]_vars

\* C28's case: the pruning pass is over, the archive of an earlier run is
\* gone and an archive uploaded in this run is still there.
C28_Witness ==
    /\ pc = "recheck"
    /\ <<"compressed", EarlierArchive(430).id>> \in delete_calls
    /\ EarlierArchive(430) \notin compressed
    /\ \E a \in compressed : a.createdTime = now

\* ---- the retention bound of the models (SpecModelRuns)
\* The model artifacts of a set of files.
Artifacts(S) == {m \in S : IsH5(m)}

\* The pass is over and each of its moves and deletes succeeded.
PassSucceeded ==
    /\ pc = "clean_list"
    /\ move_failed = {}
    /\ (move_calls \cup ModelDeleteCalls) \cap models = {}

\* C27: with old_models_keep not above backup_best_models, after a pass whose
\* moves and deletes all succeeded the models folder holds at most
\* old_models_keep artifacts, and the models and backups folders together
\* hold at most backup_best_models artifacts, however many passes there were.
C27_RetentionBound ==
    PassSucceeded =>
        /\ Cardinality(Artifacts(models)) <= retention_config.old_models_keep
        /\ Cardinality(Artifacts(models \cup backups))
               <= retention_config.backup_best_models

\* ---- one run after the other (SpecRerun)
\* The store without the reports: the seven folders' worth of files the run
\* before left.
StoreNow == <<raw_data, processed_data, models, compressed, backups, metrics, root>>

\* Nothing but the two runs changes the store: emergency_cleanup of the run
\* before read the usage run_full_cleanup had just read, the usage this run
\* has read after its regular passes, if it has, is the one that goes with
\* the store as the run before left it, and its emergency_cleanup read the
\* same.
NoExternalChange ==
    /\ first.steady
    /\ \/ used_gb_after = NotRead
       \/ /\ used_gb_after \in LeftByFirst
          /\ target_reduction \in {0, TargetReduction(used_gb_after)}

\* The files of the groups of a dict of months.
FilesOf(groups) ==
    UNION {{groups[n].files[k] : k \in 1..Len(groups[n].files)} : n \in 1..Len(groups)}

\* The month a file is grouped under in a dict of months, as a set: empty
\* when the file is in no group.
MonthsOf(groups, f) ==
    {groups[n].month : n \in {m \in 1..Len(groups) :
                                 \E k \in 1..Len(groups[m].files) : groups[m].files[k] = f}}

\* C25: in the run after a run whose every remote call succeeded, with no
\* change to the store but theirs, the store without the reports stays as it
\* was left, no group is made, no upload fails and delete_file and
\* move_file_to_backup are never called.  In the run after any run, the pass
\* groups exactly the files of its listing older than the window, and a file
\* the run before had grouped is under the same month as then.
C25_RerunIdempotent ==
    first.pc # "none" =>
        /\ (first.succeeded /\ NoExternalChange) =>
               /\ StoreNow = first.store
               /\ monthly_groups = <<>>
               /\ upload_failed = {}
               /\ delete_calls = {}
               /\ move_calls = {}
        /\ FilesOf(monthly_groups) = {f \in raw_before : IsOld(f, cutoff_date)}
        /\ \A f \in FilesOf(monthly_groups) \cap FilesOf(first.monthly_groups) :
               MonthsOf(monthly_groups, f) = MonthsOf(first.monthly_groups, f)

\* C25's case: the second run is over after a first run that succeeded, and
\* what the first run archived, pruned, backed up and reclaimed is there: an
\* archive created now, a model in the backups, no raw or processed file
\* left, and three reports.
C25_Witness ==
    /\ first.pc # "none"
    /\ first.succeeded
    /\ NoExternalChange
    /\ pc = "exit_0"
    /\ \E a \in compressed : a.createdTime = now
    /\ EarlierArchive(430) \notin compressed
    /\ backups # {}
    /\ raw_data = {}
    /\ processed_data = {}
    /\ Len(logs) = 3

\* C25's other case: the second run has grouped again a file the first run
\* had grouped and failed to archive or to delete.
C25_WitnessRegrouped ==
    /\ first.pc # "none"
    /\ ~first.succeeded
    /\ FilesOf(monthly_groups) \cap FilesOf(first.monthly_groups) # {}

\* ---- the marker of the archives (SpecOrganize)
\* The raw files named as archives.
MarkedRaw(S) == {f \in S : IsCompressedName(RawName(f))}

\* C26: every file of forex_compressed, the archives the pass uploads
\* included, has 'compressed' in its name; the reorganization puts no file
\* with 'compressed' in its name into forex_data_raw, which held none; and so
\* no file with 'compressed' in its name, hence no archive, is in a monthly
\* group.
C26_ArchivesNotReingested ==
    /\ \A a \in compressed : IsCompressedName(a.name)
    /\ MarkedRaw(raw_data) = {}
    /\ MarkedRaw(FilesOf(monthly_groups)) = {}

\* C26's case: the reorganization moved the file named as an archive from the
\* root folder to forex_compressed and data file 1 to forex_data_raw, and the
\* pass has archived a month and is over.
C26_Witness ==
    /\ pc = "manage_list"
    /\ \E a \in compressed : a.createdTime = RawCreated(3) /\ a.rows = RawRows(3)
    /\ \E a \in compressed : a.createdTime = now
    /\ 1 \in FilesOf(monthly_groups)
    /\ <<"data", 3>> \notin root

====
